---- MODULE Spec2Model ----
(***************************************************************************)
(* A model of scripts/modernize.py (class CodeModernizer): the text rules  *)
(* of modernize_html, modernize_css and modernize_js, and the session      *)
(* modernize() that applies them to the files of a project tree.           *)
(*                                                                         *)
(* Text is a sequence of atoms.  An atom is a fixed piece of text; the     *)
(* atoms are cut so that every pattern the code looks for ('style="',      *)
(* '<head>', '<img', '>', 'alt=', 'src="', '--', 'var', '=') begins and    *)
(* ends at atom boundaries.  In particular the double quote is an atom of  *)
(* its own and no other atom holds one, '>' occurs only as the last        *)
(* character of an atom, and two word atoms of a script are never          *)
(* adjacent.  str.find / str.replace / re.findall / re.sub are then the    *)
(* operators below, computed on atoms exactly as Python computes them on   *)
(* characters.                                                             *)
(***************************************************************************)
EXTENDS Integers, Sequences, FiniteSets, TLC

VARIABLES
    \* --- one rule applied to one text, and again to its own output
    rule,       \* the rule under test, "none" in a session
    input,      \* the text the rule is first applied to
    passes,     \* <<[content, changes]>>: the result of each application
    \* --- the session: CodeModernizer and the project tree
    disk,       \* file path -> content, Absent when the tree has no such file
    unreadable, \* files whose read_text raises (OSError)
    dry_run,    \* self.dry_run
    backup,     \* self.backup
    changes,    \* self.changes
    pc,         \* where modernize() stands
    queue,      \* files discovered and not yet processed, in processing order
    backups,    \* the backup trees created so far (copies of the root)
    ops,        \* what the current session did to the file system, in order
    start,      \* the tree as the current session found it
    summary,    \* what print_summary reported, NoSummary before
    runs        \* the finished sessions, in order

ruleVars == <<rule, input, passes>>
sessionVars == <<disk, unreadable, dry_run, backup, changes, pc, queue,
                 backups, ops, start, summary, runs>>
vars == <<rule, input, passes, disk, unreadable, dry_run, backup, changes, pc,
          queue, backups, ops, start, summary, runs>>

(***************************************************************************)
(* Bounds of the model.                                                    *)
(***************************************************************************)
MaxChunks == 4      \* number of chunks (tags, attributes, statements) of an input text
MaxSessions == 2    \* sessions run one after the other on the tree

(***************************************************************************)
(* Strings: str.find, the in operator, str.replace.                        *)
(***************************************************************************)
Q == "\""

Min(S) == CHOOSE x \in S : \A y \in S : x <= y

OccursAt(t, i, pat) ==
    /\ i >= 1
    /\ i + Len(pat) - 1 <= Len(t)
    /\ \A k \in 1..Len(pat) : t[i + k - 1] = pat[k]

\* str.find(pat, from): the first index >= from where pat occurs, 0 for none
Find(t, pat, from) ==
    LET hits == {i \in from..Len(t) : OccursAt(t, i, pat)}
    IN  IF hits = {} THEN 0 ELSE Min(hits)

\* pat in t
Contains(t, pat) == Find(t, pat, 1) # 0

\* t.replace(old, new, 1)
ReplaceFirst(t, old, new) ==
    LET i == Find(t, old, 1)
    IN  IF i = 0 THEN t
        ELSE SubSeq(t, 1, i - 1) \o new \o SubSeq(t, i + Len(old), Len(t))

RECURSIVE ReplaceFrom(_, _, _, _)
ReplaceFrom(t, old, new, from) ==
    LET i == Find(t, old, from)
    IN  IF i = 0 THEN SubSeq(t, from, Len(t))
        ELSE SubSeq(t, from, i - 1) \o new \o ReplaceFrom(t, old, new, i + Len(old))

\* t.replace(old, new): every occurrence, left to right, not overlapping
ReplaceAll(t, old, new) == ReplaceFrom(t, old, new, 1)

\* the first index >= from holding an atom of S, 0 for none
FirstIn(t, S, from) ==
    LET hits == {i \in from..Len(t) : t[i] \in S}
    IN  IF hits = {} THEN 0 ELSE Min(hits)

(***************************************************************************)
(* log_change: one ChangeRecord appended to self.changes.  The description *)
(* is the f-string's text with its interpolated values kept apart.         *)
(***************************************************************************)
ChangeRecord(file_path, category, description, count, token) ==
    [file |-> file_path, category |-> category, description |-> description,
     count |-> count, token |-> token]

log_change(chs, file_path, category, description, count, token) ==
    Append(chs, ChangeRecord(file_path, category, description, count, token))

(***************************************************************************)
(* modernize_html, rule 1: inline styles to classes.                       *)
(***************************************************************************)
\* re.findall(r'style="([^"]*)"', content), scanning from index i: the
\* [from, to] spans of the matches
RECURSIVE StyleSpans(_, _)
StyleSpans(content, i) ==
    IF i > Len(content) THEN <<>>
    ELSE LET close == FirstIn(content, {Q}, i + 2)
         IN  IF content[i] = "style=" /\ i < Len(content) /\ content[i + 1] = Q
                /\ close # 0
             THEN <<[from |-> i, to |-> close]>> \o StyleSpans(content, close + 1)
             ELSE StyleSpans(content, i + 1)

\* the captured groups: the text between the quotes of each match
inline_styles(content) ==
    LET spans == StyleSpans(content, 1)
    IN  [k \in 1..Len(spans) |->
            SubSeq(content, spans[k].from + 2, spans[k].to - 1)]

class_name(i) == <<"inline-style-", ToString(i)>>

StyleAttr(style) == <<"style=", Q>> \o style \o <<Q>>
ClassAttr(i) == <<"class=", Q>> \o class_name(i) \o <<Q>>

\* the replacement without its count of 1: every occurrence of the attribute
ReplaceStyleEverywhere(content, style, i) ==
    ReplaceAll(content, StyleAttr(style), ClassAttr(i))

\* content.replace(f'style="{style}"', f'class="{class_name}"', 1)
ReplaceStyle(content, style, i) ==
    ReplaceFirst(content, StyleAttr(style), ClassAttr(i))

\* the for loop over enumerate(inline_styles), from its i-th turn on
RECURSIVE ExtractStyles(_, _, _)
ExtractStyles(content, styles, i) ==
    IF i > Len(styles) THEN content
    ELSE ExtractStyles(ReplaceStyle(content, styles[i], i), styles, i + 1)

InlineStylesRule(file_path, st) ==
    LET styles == inline_styles(st.content)
    IN  IF styles # <<>>
        THEN [content |-> ExtractStyles(st.content, styles, 1),
              changes |-> log_change(st.changes, file_path, "inline-styles",
                                     "Extracted {n} inline styles to classes",
                                     Len(styles), "")]
        ELSE st

(***************************************************************************)
(* modernize_html, rule 2: the viewport meta tag.                          *)
(***************************************************************************)
ViewportMarker == <<"<meta name=", Q, "viewport", Q>>
HeadTag == <<"<head", ">">>
viewport == ViewportMarker \o
            <<" content=", Q, "width=device-width, initial-scale=1.0", Q, ">">>

ViewportRule(file_path, st) ==
    IF ~Contains(st.content, ViewportMarker) /\ Contains(st.content, <<"<head">>)
    THEN [content |-> ReplaceFirst(st.content, HeadTag,
                                   HeadTag \o <<"\n    ">> \o viewport),
          changes |-> log_change(st.changes, file_path, "viewport",
                                 "Added viewport meta tag", 0, "")]
    ELSE st

(***************************************************************************)
(* modernize_html, rule 3: alt attributes for images.                      *)
(***************************************************************************)
\* atoms that end with '>' (no atom holds '>' elsewhere)
GTAtoms == {">", "<b>", "</b>", "<i>", "</i>", "<center>", "</center>",
            "<strong>", "</strong>", "<em>", "</em>", "</div>"}
\* atoms that hold 'alt='
AltAtoms == {" alt=", " data-alt="}
\* atoms that end with 'src=' (the quote that follows is an atom of its own)
SrcAtoms == {" src=", " data-src="}

\* re.findall(r'<img(?![^>]*alt=)[^>]*>', content), scanning from index i
RECURSIVE ImgSpans(_, _)
ImgSpans(content, i) ==
    IF i > Len(content) THEN <<>>
    ELSE LET gt == FirstIn(content, GTAtoms, i + 1)
         IN  IF content[i] = "<img" /\ gt # 0
                /\ \A k \in (i + 1)..(gt - 1) : content[k] \notin AltAtoms
             THEN <<[from |-> i, to |-> gt]>> \o ImgSpans(content, gt + 1)
             ELSE ImgSpans(content, i + 1)

imgs_without_alt(content) ==
    LET spans == ImgSpans(content, 1)
    IN  [k \in 1..Len(spans) |-> SubSeq(content, spans[k].from, spans[k].to)]

\* re.search(r'src="([^"]*)"', img): the [from, to] span of the leftmost
\* match, NoMatch for none
NoMatch == [from |-> 0, to |-> 0]
src_match(img) ==
    LET hits == {k \in 1..Len(img) :
                    /\ img[k] \in SrcAtoms
                    /\ k < Len(img) /\ img[k + 1] = Q
                    /\ FirstIn(img, {Q}, k + 2) # 0}
    IN  IF hits = {} THEN NoMatch
        ELSE [from |-> Min(hits), to |-> FirstIn(img, {Q}, Min(hits) + 2)]

\* Path(name).stem: the name without its last suffix.  A file name is a
\* sequence of word atoms, '-' and '_' atoms, and extension atoms.
ExtAtoms == {".png", ".gif"}
Stem(name) ==
    IF Len(name) > 1 /\ name[Len(name)] \in ExtAtoms
    THEN SubSeq(name, 1, Len(name) - 1)
    ELSE name

\* .replace('-', ' ').replace('_', ' ')
Spaced(name) == [k \in 1..Len(name) |->
                    IF name[k] \in {"-", "_"} THEN " " ELSE name[k]]

\* str.title(): every word capitalized
Capitalized == [my |-> "My", cool |-> "Cool", photo |-> "Photo",
                logo |-> "Logo", lazy |-> "Lazy", real |-> "Real"]
Title(name) == [k \in 1..Len(name) |->
                   IF name[k] \in DOMAIN Capitalized THEN Capitalized[name[k]]
                   ELSE name[k]]

alt_text(img) ==
    LET m == src_match(img)
    IN  IF m = NoMatch THEN <<"Image">>
        ELSE Title(Spaced(Stem(SubSeq(img, m.from + 2, m.to - 1))))

\* img.replace('<img', f'<img alt="{alt_text}"', 1)
new_img(img) ==
    ReplaceFirst(img, <<"<img">>, <<"<img", " alt=", Q>> \o alt_text(img) \o <<Q>>)

\* the for loop over imgs_without_alt, from its i-th turn on
RECURSIVE AddAlts(_, _, _)
AddAlts(content, imgs, i) ==
    IF i > Len(imgs) THEN content
    ELSE AddAlts(ReplaceFirst(content, imgs[i], new_img(imgs[i])), imgs, i + 1)

AltTextRule(file_path, st) ==
    LET imgs == imgs_without_alt(st.content)
    IN  IF imgs # <<>>
        THEN [content |-> AddAlts(st.content, imgs, 1),
              changes |-> log_change(st.changes, file_path, "accessibility",
                                     "Added alt attributes to {n} images",
                                     Len(imgs), "")]
        ELSE st

(***************************************************************************)
(* modernize_html, rule 4: deprecated tags.                                *)
(***************************************************************************)
\* the dict, in insertion order (the order .items() yields)
deprecated_replacements ==
    << [old |-> "<b>",       new |-> <<"<strong>">>],
       [old |-> "</b>",      new |-> <<"</strong>">>],
       [old |-> "<i>",       new |-> <<"<em>">>],
       [old |-> "</i>",      new |-> <<"</em>">>],
       [old |-> "<center>",
        new |-> <<"<div ", "style=", Q, "text-align: center;", Q, ">">>],
       [old |-> "</center>", new |-> <<"</div>">>] >>

\* the replacement with a count of 1: the first occurrence only
ReplaceTagOnce(content, old, new) == ReplaceFirst(content, <<old>>, new)

\* content.replace(old, new)
ReplaceTag(content, old, new) == ReplaceAll(content, <<old>>, new)

\* the for loop over deprecated_replacements.items(), from its i-th turn on
RECURSIVE ReplaceDeprecated(_, _, _)
ReplaceDeprecated(file_path, st, i) ==
    IF i > Len(deprecated_replacements) THEN st
    ELSE LET r == deprecated_replacements[i]
         IN  IF Contains(st.content, <<r.old>>)
             THEN ReplaceDeprecated(file_path,
                    [content |-> ReplaceTag(st.content, r.old, r.new),
                     changes |-> log_change(st.changes, file_path,
                                            "deprecated-tags",
                                            "Replaced {old} with {new}", 0, r.old)],
                    i + 1)
             ELSE ReplaceDeprecated(file_path, st, i + 1)

DeprecatedTagsRule(file_path, st) == ReplaceDeprecated(file_path, st, 1)

\* the four rules of modernize_html, each on the output of the one before
html_rules(file_path, st) ==
    DeprecatedTagsRule(file_path,
        AltTextRule(file_path,
            ViewportRule(file_path,
                InlineStylesRule(file_path, st))))

(***************************************************************************)
(* modernize_css: the custom properties template.                          *)
(***************************************************************************)
\* '--' is an atom of its own wherever a text holds it
css_vars == <<"\n/* CSS Custom Properties */\n:root {\n  ", "--",
              "color-primary: #007bff;", "\n}\n\n">>

CssVariablesRule(file_path, st) ==
    IF ~Contains(st.content, <<"--">>)
    THEN [content |-> css_vars \o st.content,
          changes |-> log_change(st.changes, file_path, "css-variables",
                                 "Added CSS custom properties template", 0, "")]
    ELSE st

css_rules(file_path, st) == CssVariablesRule(file_path, st)

(***************************************************************************)
(* modernize_js: var to let/const.                                         *)
(***************************************************************************)
\* \w+ atoms and \s atoms of a script; '=' and '+' are atoms of their own,
\* so '==' is two '=' atoms and '+=' is '+' then '='
WordAtoms == {"var", "let", "const", "x", "y", "f", "1", "2"}
WsAtoms == {" ", "\n"}

\* \b before index i: no word atom right before it
WordStart(content, i) == i = 1 \/ content[i - 1] \notin WordAtoms

\* the first index >= i holding no \s atom, Len + 1 when there is none
SkipWs(content, i) ==
    LET rest == {k \in i..Len(content) : content[k] \notin WsAtoms}
    IN  IF rest = {} THEN Len(content) + 1 ELSE Min(rest)

\* r'\bvar\s+(\w+)\s*=' matched at index i: the index of its '=', 0 for
\* no match
VarDeclAt(content, i) ==
    LET n == SkipWs(content, i + 1)
        e == SkipWs(content, n + 1)
    IN  IF /\ content[i] = "var" /\ WordStart(content, i)
           /\ n > i + 1 /\ n <= Len(content) /\ content[n] \in WordAtoms
           /\ e <= Len(content) /\ content[e] = "="
        THEN e ELSE 0

\* re.findall(r'\bvar\s+(\w+)\s*=', content), scanning from index i
RECURSIVE VarSpans(_, _)
VarSpans(content, i) ==
    IF i > Len(content) THEN <<>>
    ELSE LET e == VarDeclAt(content, i)
         IN  IF e # 0
             THEN <<[from |-> i, to |-> e,
                     name |-> content[SkipWs(content, i + 1)]]>>
                  \o VarSpans(content, e + 1)
             ELSE VarSpans(content, i + 1)

var_declarations(content) ==
    LET spans == VarSpans(content, 1)
    IN  [k \in 1..Len(spans) |-> spans[k].name]

\* len(re.findall(f'\\b{var_name}\\s*=', content))
assignments(content, var_name) ==
    Cardinality({i \in 1..Len(content) :
        /\ content[i] = var_name /\ WordStart(content, i)
        /\ SkipWs(content, i + 1) <= Len(content)
        /\ content[SkipWs(content, i + 1)] = "="})

\* re.sub(f'\\bvar\\s+{var_name}\\s*=', f'{keyword} {var_name} =', content, count=1)
SubDecl(content, var_name, keyword) ==
    LET hits == {i \in 1..Len(content) :
                    /\ VarDeclAt(content, i) # 0
                    /\ content[SkipWs(content, i + 1)] = var_name}
    IN  IF hits = {} THEN content
        ELSE LET i == Min(hits)
             IN  SubSeq(content, 1, i - 1)
                 \o <<keyword, " ", var_name, " ", "=">>
                 \o SubSeq(content, VarDeclAt(content, i) + 1, Len(content))

\* which keyword a declaration of var_name gets
Keyword(content, var_name) ==
    IF assignments(content, var_name) = 1 THEN "const" ELSE "let"

\* the for loop over var_declarations, from its i-th turn on
RECURSIVE RewriteDecls(_, _, _)
RewriteDecls(content, names, i) ==
    IF i > Len(names) THEN content
    ELSE RewriteDecls(SubDecl(content, names[i], Keyword(content, names[i])),
                      names, i + 1)

ModernJsRule(file_path, st) ==
    LET names == var_declarations(st.content)
    IN  [content |-> RewriteDecls(st.content, names, 1),
         changes |-> IF names # <<>>
                     THEN log_change(st.changes, file_path, "modern-js",
                              "Replaced {n} var declarations with let/const",
                              Len(names), "")
                     ELSE st.changes]

js_rules(file_path, st) == ModernJsRule(file_path, st)

(***************************************************************************)
(* The texts the rules are applied to: up to MaxChunks chunks, each a tag, *)
(* an attribute, a statement or a fragment of one.                         *)
(***************************************************************************)
RECURSIVE Flatten(_)
Flatten(chunks) ==
    IF chunks = <<>> THEN <<>> ELSE Head(chunks) \o Flatten(Tail(chunks))

TextsOf(Chunks) ==
    {Flatten(c) : c \in UNION {[1..n -> Chunks] : n \in 0..MaxChunks}}

InlineStyleChunks ==
    { <<"style=", Q, "a", Q>>,        \* style="a"
      <<"style=", Q, "b", Q>>,        \* style="b"
      <<"style=", Q, Q>>,             \* style=""
      <<"style=", Q>>,                \* style=" left open
      <<"style=">>,
      <<Q>>,
      <<"<p ">> }

ViewportChunks ==
    { <<"<head", ">">>,                               \* <head>
      <<"<head", " lang=", Q, "en", Q, ">">>,         \* <head lang="en">
      <<"<head", "er", ">">>,                         \* <header>
      viewport,                                       \* the meta tag itself
      <<"<meta name=", Q, "viewport", Q, ">">>,
      <<"hi">> }

ImgChunks ==
    { <<"<img", ">">>,
      <<"<img", " src=", Q, "my", "-", "cool", "_", "photo", ".png", Q, ">">>,
      <<"<img", " src=", Q, "logo", ".png", Q, ">">>,
      <<"<img", " src=", Q, "logo", ".png", Q, " alt=", Q, "x", Q, ">">>,
      <<"<img", " alt=", Q, "x", Q, ">">>,
      <<"<img", " src='logo.png'", ">">>,             \* single quotes
      <<"<img", " data-src=", Q, "lazy", ".png", Q,
                " src=", Q, "real", ".png", Q, ">">>,
      <<"<img", " src=", Q, "logo", ".png", Q, " data-alt=", Q, "x", Q, ">">>,
      <<"hi">> }

DeprecatedChunks ==
    { <<"<b>">>, <<"</b>">>, <<"<i>">>, <<"</i>">>, <<"<center>">>,
      <<"</center>">>, <<"hi">> }

CssChunks ==
    { <<"a { width: 10px }">>,
      <<"a { color: var(", "--", "c) }">>,
      <<":root { ", "--", "c: red }">> }

JsChunks ==
    { <<"var", " ", "x", " ", "=", " ", "1", ";">>,      \* var x = 1;
      <<"var", " ", "y", "=", "1", ";">>,                \* var y=1;
      <<"x", " ", "=", " ", "2", ";">>,                  \* x = 2;
      <<"y", " ", "=", " ", "2", ";">>,                  \* y = 2;
      <<"x", " ", "+", "=", " ", "2", ";">>,             \* x += 2;
      <<"if (", "x", " ", "=", "=", " ", "1", ") ", "f", "();">>, \* if (x == 1) f();
      <<"f", "(", "y", ");">> }                          \* f(y);

Rules == {"inline-styles", "viewport", "accessibility", "deprecated-tags",
          "css-variables", "modern-js"}

Inputs(r) ==
    CASE r = "inline-styles"   -> TextsOf(InlineStyleChunks)
      [] r = "viewport"        -> TextsOf(ViewportChunks)
      [] r = "accessibility"   -> TextsOf(ImgChunks)
      [] r = "deprecated-tags" -> TextsOf(DeprecatedChunks)
      [] r = "css-variables"   -> TextsOf(CssChunks)
      [] r = "modern-js"       -> TextsOf(JsChunks)

(***************************************************************************)
(* One rule applied to a text, and then to its own output.                 *)
(***************************************************************************)
InputFile == "input"
NoChanges == <<>>

\* the text the next application reads
Current == IF passes = <<>> THEN input ELSE passes[Len(passes)].content

Fresh == [content |-> Current, changes |-> NoChanges]

Apply(r, result) ==
    /\ rule = r
    /\ Len(passes) < 2
    /\ passes' = Append(passes, result)
    /\ UNCHANGED <<rule, input>>
    /\ UNCHANGED sessionVars

ApplyInlineStyles == Apply("inline-styles", InlineStylesRule(InputFile, Fresh))
ApplyViewport == Apply("viewport", ViewportRule(InputFile, Fresh))
ApplyAltText == Apply("accessibility", AltTextRule(InputFile, Fresh))
ApplyDeprecatedTags == Apply("deprecated-tags", DeprecatedTagsRule(InputFile, Fresh))
ApplyCssVariables == Apply("css-variables", CssVariablesRule(InputFile, Fresh))
ApplyModernJs == Apply("modern-js", ModernJsRule(InputFile, Fresh))

Absent == <<"(no such file)">>
NoSummary == [printed |-> FALSE, no_changes |-> FALSE, total |-> 0,
              by_category |-> <<>>, applied |-> FALSE]

SessionIdle ==
    /\ disk = <<>> /\ unreadable = {} /\ dry_run = FALSE /\ backup = FALSE
    /\ changes = <<>> /\ pc = "idle" /\ queue = <<>> /\ backups = <<>>
    /\ ops = <<>> /\ start = <<>> /\ summary = NoSummary /\ runs = <<>>

RulesInit ==
    /\ rule \in Rules
    /\ input \in Inputs(rule)
    /\ passes = <<>>
    /\ SessionIdle

RulesNext ==
    \/ ApplyInlineStyles
    \/ ApplyViewport
    \/ ApplyAltText
    \/ ApplyDeprecatedTags
    \/ ApplyCssVariables
    \/ ApplyModernJs

SpecRules == RulesInit /\ [][RulesNext]_vars

(***************************************************************************)
(* The project tree.                                                       *)
(***************************************************************************)
Paths == {"index.html", "page.html", "old.htm", "site.css", "app.js", "notes.txt"}

\* the order in which the directory walk of Path.rglob yields the entries
Listing == <<"app.js", "index.html", "notes.txt", "old.htm", "page.html",
            "site.css">>

Suffix(p) ==
    CASE p = "index.html" -> ".html"
      [] p = "page.html"  -> ".html"
      [] p = "old.htm"    -> ".htm"
      [] p = "site.css"   -> ".css"
      [] p = "app.js"     -> ".js"
      [] p = "notes.txt"  -> ".txt"

\* what a file of the tree may hold
Contents(p) ==
    CASE p = "index.html" ->
            { <<"<center>", "hi", "</center>">>,
              <<"<head", ">", "<img", " src=", Q, "logo", ".png", Q, ">">>,
              <<"hi">> }
      [] p = "page.html"  ->
            { <<"<head", " lang=", Q, "en", Q, ">", "<b>", "hi", "</b>">> }
      [] p = "old.htm"    -> { <<"<b>", "hi", "</b>">> }
      [] p = "site.css"   -> { <<"a { width: 10px }">>, <<":root { ", "--", "c: red }">> }
      [] p = "app.js"     -> { <<"var", " ", "x", " ", "=", " ", "1", ";">> }
      [] p = "notes.txt"  -> { <<"<b>", "hi", "</b>">> }

\* notes.txt is always there; every other file may be missing
Optional == Paths \ {"notes.txt"}
Trees == {t \in [Paths -> UNION {Contents(p) : p \in Paths} \cup {Absent}] :
             \A p \in Paths :
                 t[p] \in Contents(p) \cup (IF p \in Optional THEN {Absent} ELSE {})}

\* the sets of files that cannot be read
Unreadables == {{}, {"index.html"}, {"site.css"}}

Present(tree) == {p \in Paths : tree[p] # Absent}

\* list(self.project_path.rglob("*" + suffix)) on the tree
rglob(tree, suffix) ==
    LET Hit(p) == tree[p] # Absent /\ Suffix(p) = suffix
    IN  SelectSeq(Listing, Hit)

Tagged(files, kind) == [k \in 1..Len(files) |-> [file |-> files[k], kind |-> kind]]

(***************************************************************************)
(* modernize(): one session of CodeModernizer on the tree.                 *)
(***************************************************************************)
Op(op, file, kind) == [op |-> op, file |-> file, kind |-> kind]

\* the session is over: by print_summary's return or by an exception
EndSession(outcome, chs, tree, done, smry) ==
    /\ runs' = Append(runs, [dry_run |-> dry_run, backup |-> backup,
                             start |-> start, end |-> tree, changes |-> chs,
                             outcome |-> outcome, ops |-> done,
                             summary |-> smry])
    /\ pc' = "idle"
    /\ dry_run' = FALSE /\ backup' = FALSE
    /\ changes' = <<>> /\ queue' = <<>> /\ ops' = <<>>
    /\ start' = tree /\ summary' = NoSummary

\* modernize() without its call of create_backup
FirstStepSkipsBackup(b, d) == "discover"

\* where modernize() goes first: the backup, or straight to the files
FirstStep(b, d) == IF b /\ ~d THEN "backup" ELSE "discover"

\* CodeModernizer(project_path, dry_run, backup).modernize() is called
StartSession ==
    /\ pc = "idle"
    /\ Len(runs) < MaxSessions
    /\ \E d \in BOOLEAN, b \in BOOLEAN :
        /\ dry_run' = d
        /\ backup' = b
        /\ pc' = FirstStep(b, d)
    /\ changes' = <<>>
    /\ start' = disk
    /\ ops' = <<>>
    /\ summary' = NoSummary
    /\ UNCHANGED <<disk, unreadable, queue, backups, runs>>
    /\ UNCHANGED ruleVars

\* create_backup: shutil.copytree copies the root to a sibling directory, or
\* raises, and the exception ends modernize()
CreateBackup ==
    /\ pc = "backup"
    /\ \/ /\ backups' = Append(backups, disk)
          /\ ops' = Append(ops, Op("backup", "", ""))
          /\ pc' = "discover"
          /\ UNCHANGED <<dry_run, backup, changes, queue, start, summary, runs>>
       \/ /\ EndSession("backup_failed", changes, disk, ops, NoSummary)
          /\ UNCHANGED backups
    /\ UNCHANGED <<disk, unreadable>>
    /\ UNCHANGED ruleVars

\* the three rglob calls
Discover ==
    /\ pc = "discover"
    /\ queue' = Tagged(rglob(disk, ".html"), "html")
                \o Tagged(rglob(disk, ".css"), "css")
                \o Tagged(rglob(disk, ".js"), "js")
    /\ pc' = "files"
    /\ UNCHANGED <<disk, unreadable, dry_run, backup, changes, backups, ops,
                   start, summary, runs>>
    /\ UNCHANGED ruleVars

\* the write without its test of self.dry_run
ShouldWriteAlways(content, original_content, d) == content # original_content

\* if content != original_content: if not self.dry_run: write_text
ShouldWrite(content, original_content, d) == content # original_content /\ ~d

\* modernize_html / modernize_css / modernize_js on the next file: read_text
\* (which may raise), the rules, the write
ModernizeFile(kind, file_path, result) ==
    /\ pc = "files"
    /\ queue # <<>>
    /\ Head(queue) = [file |-> file_path, kind |-> kind]
    /\ IF file_path \in unreadable
       THEN /\ EndSession("read_failed", changes, disk, ops, NoSummary)
            /\ UNCHANGED disk
       ELSE LET write == ShouldWrite(result.content, disk[file_path], dry_run)
            IN  /\ changes' = result.changes
                /\ disk' = IF write THEN [disk EXCEPT ![file_path] = result.content]
                           ELSE disk
                /\ ops' = ops \o <<Op("read", file_path, kind)>>
                              \o (IF write THEN <<Op("write", file_path, kind)>>
                                  ELSE <<>>)
                /\ queue' = Tail(queue)
                /\ UNCHANGED <<dry_run, backup, pc, start, summary, runs>>
    /\ UNCHANGED <<unreadable, backups>>
    /\ UNCHANGED ruleVars

Loaded(file_path) == [content |-> disk[file_path], changes |-> changes]

modernize_html ==
    \E f \in Paths : ModernizeFile("html", f, html_rules(f, Loaded(f)))

modernize_css ==
    \E f \in Paths : ModernizeFile("css", f, css_rules(f, Loaded(f)))

modernize_js ==
    \E f \in Paths : ModernizeFile("js", f, js_rules(f, Loaded(f)))

\* what print_summary prints
Categories(chs) == {chs[k].category : k \in 1..Len(chs)}
Summary(chs, d) ==
    [printed |-> TRUE,
     no_changes |-> chs = <<>>,
     total |-> Len(chs),
     by_category |-> [c \in Categories(chs) |->
                         Cardinality({k \in 1..Len(chs) : chs[k].category = c})],
     applied |-> chs # <<>> /\ ~d]

print_summary ==
    /\ pc = "files"
    /\ queue = <<>>
    /\ EndSession("done", changes, disk, ops, Summary(changes, dry_run))
    /\ UNCHANGED <<disk, unreadable, backups>>
    /\ UNCHANGED ruleVars

Init ==
    /\ rule = "none" /\ input = <<>> /\ passes = <<>>
    /\ disk \in Trees
    /\ unreadable \in {u \in Unreadables : u \subseteq Present(disk)}
    /\ dry_run = FALSE /\ backup = FALSE
    /\ changes = <<>> /\ pc = "idle" /\ queue = <<>> /\ backups = <<>>
    /\ ops = <<>> /\ start = disk /\ summary = NoSummary /\ runs = <<>>

Next ==
    \/ StartSession
    \/ CreateBackup
    \/ Discover
    \/ modernize_html
    \/ modernize_css
    \/ modernize_js
    \/ print_summary

Spec == Init /\ [][Next]_vars

(***************************************************************************)
(* The sessions a claim speaks of: the finished ones, and the one running. *)
(***************************************************************************)
Finished == {runs[i] : i \in 1..Len(runs)}

OpsOf(o, kinds) == {k \in 1..Len(o) : o[k].op \in kinds}

\* every backup tree was made by one session's backup step
BackupsMade ==
    Cardinality({i \in 1..Len(runs) : OpsOf(runs[i].ops, {"backup"}) # {}})
    + (IF OpsOf(ops, {"backup"}) # {} THEN 1 ELSE 0)

\* C1: a dry-run session writes no file and makes no backup, so the tree is
\* as it found it, and its change log is the one a session without dry-run,
\* started on the same tree and not stopped by its backup, records.
C1_DryRunGuarantee ==
    /\ Len(backups) = BackupsMade
    /\ (pc # "idle" /\ dry_run) =>
          /\ disk = start
          /\ OpsOf(ops, {"write", "backup"}) = {}
    /\ \A r \in Finished : r.dry_run =>
          /\ r.end = r.start
          /\ OpsOf(r.ops, {"write", "backup"}) = {}
    /\ \A r \in Finished, w \in Finished :
          (/\ r.dry_run /\ ~w.dry_run
           /\ w.outcome # "backup_failed"
           /\ r.start = w.start)
          => /\ r.changes = w.changes
             /\ r.outcome = w.outcome

\* a dry run that logged changes, then a run that applied them to the same tree
C1_Witness ==
    \E i \in 1..Len(runs), j \in 1..Len(runs) :
        /\ i < j
        /\ runs[i].dry_run /\ runs[i].backup /\ runs[i].changes # <<>>
        /\ ~runs[j].dry_run /\ runs[j].outcome = "done"
        /\ runs[j].start = runs[i].start
        /\ runs[j].end # runs[j].start

\* C2: with backup and without dry-run the copy of the tree is made before
\* any file is read or written, and a failed copy ends the session with the
\* tree untouched.
C2_BackupPrecedesMutation ==
    /\ (pc # "idle" /\ backup /\ ~dry_run) =>
          /\ pc = "backup" => (ops = <<>> /\ disk = start)
          /\ ops # <<>> => (ops[1].op = "backup" /\ backups[Len(backups)] = start)
    /\ \A r \in Finished :
          /\ (r.backup /\ ~r.dry_run /\ r.ops # <<>>) => r.ops[1].op = "backup"
          /\ r.outcome = "backup_failed" => (r.end = r.start /\ r.ops = <<>>)

\* one session stopped by its backup, another wrote files after its backup
C2_Witness ==
    \E r \in Finished, w \in Finished :
        /\ r.outcome = "backup_failed"
        /\ w.backup /\ ~w.dry_run /\ w.outcome = "done"
        /\ OpsOf(w.ops, {"write"}) # {}

\* the files modernize() discovers on a tree
Discovered(tree) ==
    {p \in Paths : tree[p] # Absent /\ Suffix(p) \in {".html", ".css", ".js"}}

\* C3: a file that cannot be read is skipped: it is left as it is, every
\* other discovered file is processed, and the summary is printed.
C3_ReadFailureIsSkip ==
    \A r \in Finished : r.outcome # "backup_failed" =>
        /\ r.summary.printed
        /\ \A p \in Discovered(r.start) \ unreadable :
              \E k \in OpsOf(r.ops, {"read"}) : r.ops[k].file = p
        /\ \A p \in unreadable : r.end[p] = r.start[p]

\* the transformer of a file type
KindOf(suffix) ==
    CASE suffix \in {".html", ".htm"} -> "html"
      [] suffix = ".css" -> "css"
      [] suffix = ".js" -> "js"
      [] OTHER -> "none"

\* C4: every .html, .htm, .css and .js file of the tree is processed exactly
\* once, by the transformer of its type, and no other file is processed.
C4_DiscoveryCompleteness ==
    \A r \in Finished : r.outcome = "done" =>
        \A p \in Paths :
            LET reads == {k \in OpsOf(r.ops, {"read"}) : r.ops[k].file = p}
            IN  IF r.start[p] # Absent /\ KindOf(Suffix(p)) # "none"
                THEN /\ Cardinality(reads) = 1
                     /\ \A k \in reads : r.ops[k].kind = KindOf(Suffix(p))
                ELSE reads = {}

\* C10: a session without dry-run that follows a finished one on its tree
\* records no change, writes no file and reports that nothing is needed.
C10_SessionFixpoint ==
    \A i \in 1..(Len(runs) - 1) :
        (/\ ~runs[i].dry_run /\ runs[i].outcome = "done"
         /\ ~runs[i + 1].dry_run /\ runs[i + 1].outcome = "done")
        => /\ runs[i + 1].changes = <<>>
           /\ OpsOf(runs[i + 1].ops, {"write"}) = {}
           /\ runs[i + 1].summary.no_changes

(***************************************************************************)
(* The rules, one at a time.                                               *)
(***************************************************************************)
Applied(r) == rule = r /\ Len(passes) >= 1
AppliedTwice(r) == rule = r /\ Len(passes) = 2

\* C5: the viewport rule and the custom-properties rule, applied to their
\* own output, change no text and emit no further ChangeRecord.
C5_GuardedRulesIdempotent ==
    (AppliedTwice("viewport") \/ AppliedTwice("css-variables")) =>
        /\ passes[2].content = passes[1].content
        /\ passes[2].changes = NoChanges

\* the deprecated tokens, in the order of the dict, and their tag pairs
DeprecatedTokens ==
    [i \in 1..Len(deprecated_replacements) |-> deprecated_replacements[i].old]
TagPairs == { {"<b>", "</b>"}, {"<i>", "</i>"}, {"<center>", "</center>"} }
Atoms(t) == {t[k] : k \in 1..Len(t)}

\* what one atom becomes when every deprecated token is replaced
Modern(atom) ==
    LET hits == {i \in 1..Len(deprecated_replacements) :
                    deprecated_replacements[i].old = atom}
    IN  IF hits = {} THEN <<atom>>
        ELSE deprecated_replacements[CHOOSE i \in hits : TRUE].new

AllModern(t) == Flatten([k \in 1..Len(t) |-> Modern(t[k])])

\* C6 as claimed: every deprecated token is replaced and there is exactly one
\* deprecated-tags record per tag pair that occurs in the text.
C6_OneRecordPerTagPair ==
    Applied("deprecated-tags") =>
        /\ passes[1].content = AllModern(input)
        /\ Len(passes[1].changes)
             = Cardinality({pair \in TagPairs : pair \cap Atoms(input) # {}})

\* C6 as amended: every occurrence of the six tokens is replaced, and there
\* is exactly one deprecated-tags record per token (opening and closing
\* apart) that occurs in the text, in the order of the dict, whatever the
\* number of occurrences.
C6_OneRecordPerToken ==
    Applied("deprecated-tags") =>
        LET occurring(tok) == tok \in Atoms(input)
            recs == passes[1].changes
        IN  /\ passes[1].content = AllModern(input)
            /\ [k \in 1..Len(recs) |-> recs[k].token]
                 = SelectSeq(DeprecatedTokens, occurring)
            /\ \A k \in 1..Len(recs) : recs[k].category = "deprecated-tags"

\* <b>hi</b> becomes <strong>hi</strong>, with two records
C6_Witness ==
    /\ Applied("deprecated-tags")
    /\ input = <<"<b>", "hi", "</b>">>
    /\ Len(passes[1].changes) = 2
    /\ passes[1].content = <<"<strong>", "hi", "</strong>">>

\* an assignment to name: name = ..., but not the comparison name == ..., and
\* the compound name += ...
RealAssignments(content, name) ==
    Cardinality({i \in 1..Len(content) :
        /\ content[i] = name /\ WordStart(content, i)
        /\ LET e == SkipWs(content, i + 1)
           IN  /\ e < Len(content)
               /\ \/ content[e] = "=" /\ content[e + 1] # "="
                  \/ content[e] = "+" /\ content[e + 1] = "="})

\* every declaration 'var N =' rewritten in place, const for a name assigned
\* once in the text and let for a name assigned more than once
RECURSIVE Classified(_, _, _)
Classified(text, content, i) ==
    IF i > Len(content) THEN <<>>
    ELSE LET e == VarDeclAt(content, i)
             name == content[SkipWs(content, i + 1)]
         IN  IF e # 0
             THEN << IF RealAssignments(text, name) = 1 THEN "const" ELSE "let",
                     " ", name, " ", "=" >> \o Classified(text, content, e + 1)
             ELSE <<content[i]>> \o Classified(text, content, i + 1)

\* C7: every declaration 'var N =' becomes 'const N =' when the text holds
\* exactly one assignment to N and 'let N =' when it holds more, and no
\* 'var N =' is left.
C7_DeclarationClassification ==
    Applied("modern-js") =>
        /\ passes[1].content = Classified(input, input, 1)
        /\ var_declarations(passes[1].content) = <<>>

\* the value of the tag's src attribute, <<>> when it has none: src="..."
\* or src='...', and not data-src
SrcOf(tag) ==
    LET hits == {k \in 1..Len(tag) : tag[k] = " src=" /\ k < Len(tag) /\ tag[k + 1] = Q}
    IN  IF hits # {}
        THEN SubSeq(tag, Min(hits) + 2, FirstIn(tag, {Q}, Min(hits) + 2) - 1)
        ELSE IF " src='logo.png'" \in Atoms(tag) THEN <<"logo", ".png">>
        ELSE <<>>

HasAlt(tag) == " alt=" \in Atoms(tag)

WithAlt(tag) ==
    <<"<img", " alt=", Q>>
    \o (IF SrcOf(tag) = <<>> THEN <<"Image">> ELSE Title(Spaced(Stem(SrcOf(tag)))))
    \o <<Q>> \o Tail(tag)

\* the <img ...> tags of a text, from index i on: their [from, to] spans
RECURSIVE ImgTags(_, _)
ImgTags(content, i) ==
    IF i > Len(content) THEN <<>>
    ELSE LET gt == FirstIn(content, GTAtoms, i + 1)
         IN  IF content[i] = "<img" /\ gt # 0
             THEN <<[from |-> i, to |-> gt]>> \o ImgTags(content, gt + 1)
             ELSE ImgTags(content, i + 1)

\* every tag without alt given one, the others and the text between kept
RECURSIVE AltsAdded(_, _)
AltsAdded(content, i) ==
    IF i > Len(content) THEN <<>>
    ELSE LET gt == FirstIn(content, GTAtoms, i + 1)
             tag == SubSeq(content, i, gt)
         IN  IF content[i] = "<img" /\ gt # 0
             THEN (IF HasAlt(tag) THEN tag ELSE WithAlt(tag))
                  \o AltsAdded(content, gt + 1)
             ELSE <<content[i]>> \o AltsAdded(content, i + 1)

Lacking(content) ==
    LET tags == ImgTags(content, 1)
    IN  {k \in 1..Len(tags) : ~HasAlt(SubSeq(content, tags[k].from, tags[k].to))}

\* C8: every <img> tag without alt gets one right after '<img', derived from
\* its src or "Image" without src; tags with alt are unchanged; the one
\* accessibility record counts the tags rewritten.
C8_AltTextSynthesis ==
    Applied("accessibility") =>
        LET n == Cardinality(Lacking(input))
        IN  /\ passes[1].content = AltsAdded(input, 1)
            /\ passes[1].changes =
                 IF n = 0 THEN NoChanges
                 ELSE <<ChangeRecord(InputFile, "accessibility",
                                     "Added alt attributes to {n} images", n, "")>>

\* the i-th style="..." of the text, in document order, replaced by
\* class="inline-style-i", everything else kept
RECURSIVE Numbered(_, _, _, _)
Numbered(content, spans, k, from) ==
    IF k > Len(spans) THEN SubSeq(content, from, Len(content))
    ELSE SubSeq(content, from, spans[k].from - 1) \o ClassAttr(k)
         \o Numbered(content, spans, k + 1, spans[k].to + 1)

\* C9: the i-th occurrence of style="..." in document order becomes
\* class="inline-style-i", also among identical style strings; no
\* style="..." is left; the rule applied again changes nothing and records
\* nothing.
C9_InlineStyleExtraction ==
    Applied("inline-styles") =>
        LET spans == StyleSpans(input, 1)
        IN  /\ passes[1].content = Numbered(input, spans, 1, 1)
            /\ StyleSpans(passes[1].content, 1) = <<>>
            /\ passes[1].changes =
                 IF spans = <<>> THEN NoChanges
                 ELSE <<ChangeRecord(InputFile, "inline-styles",
                                     "Extracted {n} inline styles to classes",
                                     Len(spans), "")>>
            /\ Len(passes) = 2 =>
                  /\ passes[2].content = passes[1].content
                  /\ passes[2].changes = NoChanges

\* style="a" style="b" style="a": the two identical ones get classes 1 and 3
C9_Witness ==
    /\ AppliedTwice("inline-styles")
    /\ inline_styles(input) = << <<"a">>, <<"b">>, <<"a">> >>
    /\ passes[2].content = ClassAttr(1) \o ClassAttr(2) \o ClassAttr(3)

====
